---- MODULE Spec2Model ----
(***************************************************************************)
(* Model of the auto-accept agent's coordination core.                     *)
(*                                                                         *)
(*   Spec       several extension instances (windows) sharing one          *)
(*              globalState store: handleToggle, startPolling, the 5 s      *)
(*              maintenance tick with its instance lock, stopPolling,       *)
(*              deactivate (src/extension/extension.js).                    *)
(*   FairSpec   Spec with the fairness of the host's timers.               *)
(*   RetrySpec  the activation polling of the payment handler:             *)
(*              activatePro, startProPolling and its interval callback      *)
(*              (src/unnamed/part_000).                                     *)
(*   ModeSpec   the mode controller of one window: Background toggle,      *)
(*              enable toggle, set-cadence, set-banned-patterns.            *)
(*   SchedSpec  the two timers of one window and what arms and clears      *)
(*              them.                                                       *)
(*   EntSpec    the entitlement of one window: trial, licence check of     *)
(*              activate, activation paths, restart.                        *)
(*   BootSpec   the window across restarts, with the handlers that write   *)
(*              the store keys activate reads.                              *)
(*   RunSpec    the commands of a licensed window that already runs in     *)
(*              Background mode.                                            *)
(*                                                                         *)
(* Time is relative: the lock ping is kept as its age and a timer as the   *)
(* time left until it fires; the clock advances in steps of TimeStep.      *)
(* A globalState.update takes effect when it is called.  An awaited store  *)
(* write or driver call of extension.js resolves before the clock moves    *)
(* on; a verifyLicense call of the payment handler may take any time.      *)
(* The windows run in separate processes: between the lock reads and the   *)
(* lock writes of one tick another window may read or write the store.     *)
(***************************************************************************)
EXTENDS Integers, FiniteSets, Sequences, TLC

VARIABLES
    \* ---- shared store (globalState) and wall clock --------------------
    lockId,         \* globalState[`${ide}-instance-lock`]
    lockPing,       \* globalState[`${ide}-instance-lock-ping`], kept as its age
                    \* Date.now() - lastPing
    \* ---- one extension instance per window ----------------------------
    myId,           \* globalContext.extension.id of each instance
    alive,          \* the instance has not been deactivated
    isEnabled,
    isLockedOut,
    pollTimer,      \* the handle variable of the maintenance timer; due is
                    \* the time left until the timer fires
    leaked,         \* time left of the armed maintenance timers no handle holds
    toggles,        \* toggle commands the users have issued so far
    togglePending,  \* handleToggle calls suspended at line 350
    spPending,      \* startPolling calls suspended at lines 559-560
    tickPc,         \* position inside the maintenance tick callback
    driver,         \* state of the instance's cdpHandler
    \* ---- observation (history) ----------------------------------------
    lastLease,      \* result of the instance's last lock check
    streak,         \* consecutive leader results of an enabled instance
    ev,             \* the driver call or lock write made by the last step
    quiet,          \* time since two instances were last between read and
                    \* write together (since the start if never), up to LOCK_TTL
    \* ---- activation polling (payment handler) -------------------------
    proTimer,       \* _proPollingTimer: 0 (null) or a timer id
    proLive,        \* timer ids whose setInterval is still armed
    proAttempts,    \* _proPollingAttempts
    isPro,          \* _isPro
    storePro,       \* globalState[PRO_STATE_KEY]
    probes,         \* async runs in flight, by origin (0: activatePro, else
                    \* the polling timer id) and by the await they are at
    activations,    \* activatePro calls made so far
    nextTimer,      \* next timer id setInterval hands out
    \* ---- observation (history) ----------------------------------------
    probeCount,     \* verifyLicense calls of the newest polling session
    cancelled,      \* sessions whose timer startProPolling cleared
    anyTrue,        \* some verifyLicense call resolved true
    rlog,           \* per origin: outcomes reported to the user
    \* ---- mode controller and scheduler of one window -------------------
    hasProAccess,   \* payment.hasProAccess(): paid, or the trial is active
    cdpAvailable,   \* what cdpHandler.isCDPAvailable() resolves to
    handles,        \* which of cdpHandler, relauncher activate has created
    mEnabled,       \* isEnabled of this window
    backgroundModeEnabled,
    storeBg,        \* globalState[BACKGROUND_MODE_KEY]
    dontShowAgain,  \* globalState[BACKGROUND_DONT_SHOW_KEY]
    bgPc,           \* position of the handleBackgroundToggle run
    mDriver,        \* the driver: stopped or running, and the configuration
                    \* of the last start
    mPoll,          \* pollTimer of this window: 0 (null), or a timer id
    mCmd,           \* commandPollTimer: 0 (null), or a timer id
    mTimers,        \* the armed timers: id, kind and interval of each
    pollFrequency,
    bannedCommands,
    mAwait,         \* per await site, the handler runs suspended there
    mAlive,         \* FALSE once deactivate ran
    mCalls,         \* commands the user has run in the mode window
    mev,            \* observation: what the last step did
    \* ---- entitlement of that window: src/unnamed/part_000 --------------
    trialStart,     \* globalState['auto-accept-trial-start']
    now,            \* Date.now()
    notified,       \* globalState['auto-accept-trial-notified']
    notices,        \* observation: trial-expiry notifications shown
    reverify,       \* the verifyLicense() of activate: pending or done
    eAwait,         \* per await site of a success path, the runs suspended
    storeEnabled,   \* globalState['auto-accept-enabled-global']
    storeFreq,      \* globalState['auto-accept-frequency']
    storeBanned     \* globalState['auto-accept-banned-commands']

leaseVars == << lockId, lockPing, myId, alive, isEnabled, isLockedOut,
                pollTimer, leaked, toggles, togglePending, spPending, tickPc, driver,
                lastLease, streak, ev, quiet >>

retryVars == << proTimer, proLive, proAttempts, isPro, storePro, probes,
                activations, nextTimer, probeCount, cancelled, anyTrue, rlog >>

envVars == << hasProAccess, cdpAvailable, handles >>

bgVars == << backgroundModeEnabled, storeBg, dontShowAgain, bgPc >>

schedVars == << mPoll, mCmd, mTimers, pollFrequency, bannedCommands, mAwait,
                mAlive, mCalls >>

modeVars == << envVars, bgVars, schedVars, mEnabled, mDriver, mev >>

entVars == << trialStart, now, notified, notices, reverify, eAwait >>

storeVars == << storeEnabled, storeFreq, storeBanned >>

vars == << leaseVars, retryVars, modeVars, entVars, storeVars >>

----------------------------------------------------------------------------
(* Program constants *)

\* setInterval(..., 5000) of the maintenance tick
POLL_INTERVAL == 5000

\* (Date.now() - lastPing) < 15000
LOCK_TTL == 15000

\* the stale bound of checkInstanceLock: now - lastHeartbeat > 10000
HEARTBEAT_TTL == 10000

(* Bounds *)

\* a timer callback runs at most this many clock steps after it is due
MaxLateSteps == 2

\* suspended calls of one handler per instance
MaxPending == 1

\* toggle commands in one run, all windows together
MaxToggles == 3

\* the clock advances in half maintenance intervals
TimeStep == POLL_INTERVAL \div 2

Instances == {"w1", "w2"}

\* values globalContext.extension.id can take
Ids == {"extA", "extB"}

\* globalState.get of a key never written
Undefined == "undefined"

NoPing == [set |-> FALSE, age |-> 0]

NullTimer == [state |-> "null", due |-> 0]

NoEvent == [inst |-> "none", call |-> "none", src |-> "none"]

Min(a, b) == IF a < b THEN a ELSE b

\* const MAX_PRO_POLLING_ATTEMPTS = 24
MAX_PRO_POLLING_ATTEMPTS == 24

\* polling sessions started in one run
MaxSessions == 2

\* activatePro commands issued in one run
MaxActivations == 2

\* verifyLicense calls of the polling in flight at once, all sessions
\* together
MaxInFlight == 1

\* origin of an async run: activatePro, or the polling timer that issued it
Manual == 0

Sessions == 1..MaxSessions

Sources == {Manual} \cup Sessions

\* where an async run is suspended: at await verifyLicense(), or in the
\* success path at its awaits of globalState.update and onProActivated
Stages == {"verify", "success"}

NoOutcome == [succeeded |-> 0, exhausted |-> 0]

\* return 300 of getPollFrequency: the cadence without Pro access
FREE_FREQUENCY == 300

\* cdpHandler before any start, and after stop
StoppedDriver ==
    [state |-> "stopped", bg |-> FALSE, pro |-> FALSE,
     interval |-> FREE_FREQUENCY, banned |-> "default"]

\* the awaits a handler of the mode window can be suspended at: handleToggle
\* line 350, startPolling lines 559 and 560, handleFrequencyUpdate lines 418
\* and 421, handleBannedCommandsUpdate line 438, handlePaidActivation line 380
AwaitSites ==
    {"toggle", "spSync", "spAccept", "fqStore", "fqSync", "bnStore", "paid"}

\* cadences the settings panel sends to auto-accept.updateFrequency
Freqs == {500, 1000}

\* lists the settings panel sends to auto-accept.updateBannedCommands
BannedLists == {"default", "custom"}

\* most timers armed at once in the mode window
MaxTimers == 3

\* most commands the user runs in the mode window
MaxCalls == 3

TimerIds == 1..(MaxTimers + 3)

----------------------------------------------------------------------------
(* Instance lock and scheduler: src/extension/extension.js *)

\* variant: the lock of another holder goes stale after 10 s
Fresh_ShortTTL(ping) == ping.set /\ ping.age < HEARTBEAT_TTL

\* variant: the lock of another holder never goes stale
Fresh_NeverStale(ping) == ping.set

\* lastPing && (Date.now() - lastPing) < 15000
Fresh(ping) == ping.set /\ ping.age < LOCK_TTL

\* activeInstance && activeInstance !== myId, and its ping is fresh
LockedByOther(i) ==
    /\ lockId # Undefined
    /\ lockId # myId[i]
    /\ Fresh(lockPing)

\* time left of the armed maintenance timers of instance i
LiveDues(i) ==
    leaked[i] \cup (IF pollTimer[i].state = "live" THEN {pollTimer[i].due} ELSE {})

\* if (pollTimer) clearInterval(pollTimer): the timer is disarmed, the
\* variable keeps its (now dead) handle
ClearInterval(h) ==
    IF h.state = "null" THEN h ELSE [state |-> "cleared", due |-> 0]

\* the instance runs and is not inside a synchronous block
Idle(i) == alive[i] /\ tickPc[i] = "idle"

\* syncSessions: cdpHandler.start(...) unless locked out
SyncSessions(i, src, locked) ==
    IF ~locked
    THEN /\ driver' = [driver EXCEPT ![i] = "running"]
         /\ ev' = [inst |-> i, call |-> "start", src |-> src]
    ELSE /\ UNCHANGED driver
         /\ ev' = [inst |-> i, call |-> "none", src |-> src]

\* startPolling up to its first await: clear both timers, syncSessions
StartPollingCall(i, src) ==
    /\ spPending[i] < MaxPending
    /\ pollTimer' = [pollTimer EXCEPT ![i] = ClearInterval(pollTimer[i])]
    /\ SyncSessions(i, src, isLockedOut[i])
    /\ spPending' = [spPending EXCEPT ![i] = @ + 1]
    /\ UNCHANGED leaked

\* stopPolling: clear and null both handles, cdpHandler.stop()
StopPollingCall(i) ==
    /\ pollTimer' = [pollTimer EXCEPT ![i] = NullTimer]
    /\ driver' = [driver EXCEPT ![i] = "stopped"]
    /\ ev' = [inst |-> i, call |-> "stop", src |-> "disable"]
    /\ UNCHANGED << leaked, spPending >>

\* handleToggle up to await globalState.update(GLOBAL_STATE_KEY, isEnabled)
HandleToggle(i) ==
    /\ Idle(i)
    /\ togglePending[i] < MaxPending
    /\ toggles < MaxToggles
    /\ toggles' = toggles + 1
    /\ isEnabled' = [isEnabled EXCEPT ![i] = ~@]
    /\ togglePending' = [togglePending EXCEPT ![i] = @ + 1]
    /\ streak' = [streak EXCEPT ![i] = 0]
    /\ ev' = NoEvent
    /\ UNCHANGED << lockId, lockPing, myId, alive, isLockedOut, pollTimer,
                    leaked, spPending, tickPc, driver, lastLease, quiet >>
    /\ UNCHANGED retryVars
    /\ UNCHANGED modeVars
    /\ UNCHANGED << entVars, storeVars >>

\* handleToggle after the await: startPolling() or stopPolling()
ToggleResume(i) ==
    /\ Idle(i)
    /\ togglePending[i] > 0
    /\ togglePending' = [togglePending EXCEPT ![i] = @ - 1]
    /\ IF isEnabled[i] THEN StartPollingCall(i, "enable") ELSE StopPollingCall(i)
    /\ UNCHANGED << lockId, lockPing, myId, alive, isEnabled, isLockedOut,
                    toggles, tickPc, lastLease, streak, quiet >>
    /\ UNCHANGED retryVars
    /\ UNCHANGED modeVars
    /\ UNCHANGED << entVars, storeVars >>

\* startPolling after its awaits: pollTimer = setInterval(..., 5000)
StartPollingResume(i) ==
    /\ Idle(i)
    /\ spPending[i] > 0
    /\ spPending' = [spPending EXCEPT ![i] = @ - 1]
    /\ leaked' = [leaked EXCEPT ![i] =
                    IF pollTimer[i].state = "live" THEN @ \cup {pollTimer[i].due} ELSE @]
    /\ pollTimer' = [pollTimer EXCEPT ![i] = [state |-> "live", due |-> POLL_INTERVAL]]
    /\ ev' = NoEvent
    /\ UNCHANGED << lockId, lockPing, myId, alive, isEnabled, isLockedOut,
                    toggles, togglePending, tickPc, driver, lastLease, streak,
                    quiet >>
    /\ UNCHANGED retryVars
    /\ UNCHANGED modeVars
    /\ UNCHANGED << entVars, storeVars >>

\* the timer with d left fires and is armed again for a full interval
Rearm(i, d) ==
    IF pollTimer[i].state = "live" /\ pollTimer[i].due = d
    THEN /\ pollTimer' = [pollTimer EXCEPT ![i].due = POLL_INTERVAL]
         /\ UNCHANGED leaked
    ELSE /\ leaked' = [leaked EXCEPT ![i] = (@ \ {d}) \cup {POLL_INTERVAL}]
         /\ UNCHANGED pollTimer

SetLockedOut_Skip(i, val) == UNCHANGED isLockedOut

\* lines 581-585 and 594-598: isLockedOut takes the value val, and the
\* status bar is updated, if it had the other value
SetLockedOut(i, val) == isLockedOut' = [isLockedOut EXCEPT ![i] = val]

\* maintenance tick, lines 570-588: the enabled check and the lock reads
TickRead(i, d) ==
    /\ Idle(i)
    /\ d \in LiveDues(i)
    /\ d <= 0
    /\ Rearm(i, d)
    /\ IF ~isEnabled[i]
       THEN /\ ev' = NoEvent
            /\ UNCHANGED << isLockedOut, tickPc, lastLease, streak, quiet >>
       ELSE IF LockedByOther(i)
       THEN /\ SetLockedOut(i, TRUE)
            /\ lastLease' = [lastLease EXCEPT ![i] = "standby"]
            /\ streak' = [streak EXCEPT ![i] = 0]
            /\ ev' = [inst |-> i, call |-> "none", src |-> "standby"]
            /\ UNCHANGED << tickPc, quiet >>
       ELSE /\ tickPc' = [tickPc EXCEPT ![i] = "write"]
            /\ quiet' = IF \E j \in Instances \ {i} : tickPc[j] = "write" THEN 0 ELSE quiet
            /\ ev' = NoEvent
            /\ UNCHANGED << isLockedOut, lastLease, streak >>
    /\ UNCHANGED << lockId, lockPing, myId, alive, isEnabled, toggles,
                    togglePending, spPending, driver >>
    /\ UNCHANGED retryVars
    /\ UNCHANGED modeVars
    /\ UNCHANGED << entVars, storeVars >>

\* maintenance tick, lines 590-600: write the lock, unlock, syncSessions
TickWrite(i) ==
    /\ alive[i]
    /\ tickPc[i] = "write"
    /\ lockId' = myId[i]
    /\ lockPing' = [set |-> TRUE, age |-> 0]
    /\ SetLockedOut(i, FALSE)
    /\ SyncSessions(i, "tick", FALSE)
    /\ tickPc' = [tickPc EXCEPT ![i] = "idle"]
    /\ lastLease' = [lastLease EXCEPT ![i] = "leader"]
    /\ streak' = [streak EXCEPT ![i] = Min(@ + 1, 2)]
    /\ UNCHANGED << myId, alive, isEnabled, pollTimer, leaked, toggles,
                    togglePending, spPending, quiet >>
    /\ UNCHANGED retryVars
    /\ UNCHANGED modeVars
    /\ UNCHANGED << entVars, storeVars >>

\* deactivate: stopPolling(), cdpHandler.stop(); the extension host ends
Deactivate(i) ==
    /\ Idle(i)
    /\ alive' = [alive EXCEPT ![i] = FALSE]
    /\ isEnabled' = [isEnabled EXCEPT ![i] = FALSE]
    /\ isLockedOut' = [isLockedOut EXCEPT ![i] = FALSE]
    /\ pollTimer' = [pollTimer EXCEPT ![i] = NullTimer]
    /\ leaked' = [leaked EXCEPT ![i] = {}]
    /\ togglePending' = [togglePending EXCEPT ![i] = 0]
    /\ spPending' = [spPending EXCEPT ![i] = 0]
    /\ driver' = [driver EXCEPT ![i] = "stopped"]
    /\ lastLease' = [lastLease EXCEPT ![i] = "none"]
    /\ streak' = [streak EXCEPT ![i] = 0]
    /\ ev' = [inst |-> i, call |-> "stop", src |-> "deactivate"]
    /\ UNCHANGED << lockId, lockPing, myId, toggles, tickPc, quiet >>
    /\ UNCHANGED retryVars
    /\ UNCHANGED modeVars
    /\ UNCHANGED << entVars, storeVars >>

\* a timer's time left after one clock step
Elapse(t) == t - TimeStep

\* the wall clock moves on by one step: no instance is inside a synchronous
\* block, awaited store writes and driver calls have resolved, and no timer
\* is left unfired beyond MaxLateSteps
AdvanceTime ==
    /\ \A i \in Instances : tickPc[i] = "idle"
    /\ \A i \in Instances : togglePending[i] = 0 /\ spPending[i] = 0
    /\ \A i \in Instances : \A d \in LiveDues(i) :
           Elapse(d) >= 0 - MaxLateSteps * TimeStep
    /\ lockPing' = IF lockPing.set
                   THEN [lockPing EXCEPT !.age = Min(@ + TimeStep, LOCK_TTL)]
                   ELSE lockPing
    /\ pollTimer' = [i \in Instances |->
                       IF pollTimer[i].state = "live"
                       THEN [pollTimer[i] EXCEPT !.due = Elapse(@)]
                       ELSE pollTimer[i]]
    /\ leaked' = [i \in Instances |-> {Elapse(d) : d \in leaked[i]}]
    /\ quiet' = Min(quiet + TimeStep, LOCK_TTL)
    /\ ev' = NoEvent
    /\ UNCHANGED << lockId, myId, alive, isEnabled, isLockedOut, toggles,
                    togglePending, spPending, tickPc, driver, lastLease,
                    streak >>
    /\ UNCHANGED retryVars
    /\ UNCHANGED modeVars
    /\ UNCHANGED << entVars, storeVars >>

----------------------------------------------------------------------------
(* Activation polling: src/unnamed/part_000 *)

\* variant: the polling never gives up
Exhausted_Never(n) == FALSE

\* variant: the attempt that reaches the maximum already gives up
Exhausted_AtMax(n) == n >= MAX_PRO_POLLING_ATTEMPTS

\* if (_proPollingAttempts > MAX_PRO_POLLING_ATTEMPTS)
Exhausted(n) == n > MAX_PRO_POLLING_ATTEMPTS

RECURSIVE SumProbes(_)
\* number of async runs in flight under the keys K
SumProbes(K) ==
    IF K = {} THEN 0
    ELSE LET k == CHOOSE x \in K : TRUE
         IN  probes[k] + SumProbes(K \ {k})

\* verifyLicense calls of the polling callbacks, of every session, that
\* have not resolved
InFlight == SumProbes(Sessions \X {"verify"})

\* an async run of origin s goes on from one await to the next
Move(s, from, to) ==
    [probes EXCEPT ![<<s, from>>] = @ - 1, ![<<s, to>>] = @ + 1]

\* startProPolling: clear the current timer, reset the attempts, setInterval
StartProPolling ==
    /\ nextTimer <= MaxSessions
    /\ proLive' = (proLive \ {proTimer}) \cup {nextTimer}
    /\ cancelled' = cancelled \cup (proLive \cap {proTimer})
    /\ proAttempts' = 0
    /\ probeCount' = 0
    /\ proTimer' = nextTimer
    /\ nextTimer' = nextTimer + 1

\* activatePro up to await verifyLicense()
ActivatePro ==
    /\ activations < MaxActivations
    /\ activations' = activations + 1
    /\ probes' = [probes EXCEPT ![<<Manual, "verify">>] = @ + 1]
    /\ UNCHANGED << proTimer, proLive, proAttempts, isPro, storePro,
                    nextTimer, probeCount, cancelled, anyTrue, rlog >>
    /\ UNCHANGED leaseVars
    /\ UNCHANGED modeVars
    /\ UNCHANGED << entVars, storeVars >>

\* activatePro, lines 215-237: verifyLicense() resolved with isProNow; the
\* store takes the value when globalState.update is called
ActivateVerified(isProNow) ==
    /\ probes[<<Manual, "verify">>] > 0
    /\ anyTrue' = (anyTrue \/ isProNow)
    /\ IF isProNow
       THEN /\ isPro' = TRUE
            /\ storePro' = TRUE
            /\ probes' = Move(Manual, "verify", "success")
            /\ UNCHANGED << proTimer, proLive, proAttempts, nextTimer,
                            probeCount, cancelled >>
       ELSE /\ probes' = [probes EXCEPT ![<<Manual, "verify">>] = @ - 1]
            /\ StartProPolling
            /\ UNCHANGED << isPro, storePro >>
    /\ UNCHANGED << activations, rlog >>
    /\ UNCHANGED leaseVars
    /\ UNCHANGED modeVars
    /\ UNCHANGED << entVars, storeVars >>

\* interval callback of timer t, lines 253-271
ProTick(t) ==
    /\ t \in proLive
    /\ proAttempts' = proAttempts + 1
    /\ IF Exhausted(proAttempts + 1)
       THEN /\ proLive' = proLive \ {proTimer}
            /\ proTimer' = 0
            /\ rlog' = [rlog EXCEPT ![t].exhausted = @ + 1]
            /\ UNCHANGED << probes, probeCount >>
       ELSE /\ InFlight < MaxInFlight
            /\ probes' = [probes EXCEPT ![<<t, "verify">>] = @ + 1]
            /\ probeCount' = probeCount + 1
            /\ UNCHANGED << proLive, proTimer, rlog >>
    /\ UNCHANGED << isPro, storePro, activations, nextTimer, cancelled, anyTrue >>
    /\ UNCHANGED leaseVars
    /\ UNCHANGED modeVars
    /\ UNCHANGED << entVars, storeVars >>

\* interval callback, lines 271-277: the verifyLicense() call that timer s
\* issued resolved with isProNow; clearInterval acts on the current handle
ProbeResolved(s, isProNow) ==
    /\ probes[<<s, "verify">>] > 0
    /\ anyTrue' = (anyTrue \/ isProNow)
    /\ IF isProNow
       THEN /\ proLive' = proLive \ {proTimer}
            /\ proTimer' = 0
            /\ isPro' = TRUE
            /\ storePro' = TRUE
            /\ probes' = Move(s, "verify", "success")
       ELSE /\ probes' = [probes EXCEPT ![<<s, "verify">>] = @ - 1]
            /\ UNCHANGED << proLive, proTimer, isPro, storePro >>
    /\ UNCHANGED << proAttempts, activations, nextTimer, probeCount,
                    cancelled, rlog >>
    /\ UNCHANGED leaseVars
    /\ UNCHANGED modeVars
    /\ UNCHANGED << entVars, storeVars >>

\* the success path after its awaits (globalState.update, onProActivated):
\* success log and notification
SuccessResolved(s) ==
    /\ probes[<<s, "success">>] > 0
    /\ probes' = [probes EXCEPT ![<<s, "success">>] = @ - 1]
    /\ rlog' = [rlog EXCEPT ![s].succeeded = @ + 1]
    /\ UNCHANGED << proTimer, proLive, proAttempts, isPro, storePro,
                    activations, nextTimer, probeCount, cancelled, anyTrue >>
    /\ UNCHANGED leaseVars
    /\ UNCHANGED modeVars
    /\ UNCHANGED << entVars, storeVars >>

----------------------------------------------------------------------------
(* Mode controller of one window: src/extension/extension.js *)

\* cdpHandler was created (lines 227-238)
HasHandler == handles \in {"both", "handler"}

\* relauncher was created (lines 227-238)
HasRelauncher == handles = "both"

ModeSync_UnlessRunning ==
    IF HasHandler /\ mDriver.state = "stopped"
    THEN mDriver' = [state |-> "running", bg |-> backgroundModeEnabled,
                     pro |-> hasProAccess, interval |-> pollFrequency,
                     banned |-> bannedCommands]
    ELSE UNCHANGED mDriver

\* syncSessions of the window: cdpHandler.start({isBackgroundMode, ...});
\* the window holds the instance lock
ModeSync ==
    IF HasHandler
    THEN mDriver' = [state |-> "running", bg |-> backgroundModeEnabled,
                     pro |-> hasProAccess, interval |-> pollFrequency,
                     banned |-> bannedCommands]
    ELSE UNCHANGED mDriver

\* if (cdpHandler) await cdpHandler.stop()
DriverStop ==
    IF HasHandler
    THEN mDriver' = [mDriver EXCEPT !.state = "stopped"]
    ELSE UNCHANGED mDriver

Entitled_Always == TRUE

\* payment.hasProAccess(), as the commands read it
Entitled == hasProAccess

\* a command of the user is run
Called ==
    /\ mAlive
    /\ mCalls < MaxCalls
    /\ mCalls' = mCalls + 1

\* handleBackgroundToggle, lines 475-476 and 505-507: the dialog is due, or
\* the flag is flipped and its store write is awaited
BgDecide ==
    IF ~dontShowAgain /\ ~backgroundModeEnabled
    THEN /\ bgPc' = "dialog"
         /\ mev' = "none"
         /\ UNCHANGED << backgroundModeEnabled, storeBg, mDriver >>
    ELSE /\ backgroundModeEnabled' = ~backgroundModeEnabled
         /\ storeBg' = ~backgroundModeEnabled
         /\ mev' = IF backgroundModeEnabled THEN "none" ELSE "bgOn"
         /\ bgPc' = "stored"
         /\ UNCHANGED mDriver

\* handleBackgroundToggle, lines 448-472, up to its first await
BgToggleCall ==
    /\ Called
    /\ bgPc = "idle"
    /\ IF ~Entitled
       THEN /\ mev' = "denied"
            /\ UNCHANGED << backgroundModeEnabled, storeBg, bgPc, mDriver >>
       ELSE IF ~backgroundModeEnabled /\ HasHandler
       THEN /\ bgPc' = "cdp"
            /\ mev' = "none"
            /\ UNCHANGED << backgroundModeEnabled, storeBg, mDriver >>
       ELSE BgDecide
    /\ UNCHANGED << hasProAccess, cdpAvailable, handles, mEnabled, dontShowAgain >>
    /\ UNCHANGED << mPoll, mCmd, mTimers, pollFrequency, bannedCommands, mAwait,
                    mAlive >>
    /\ UNCHANGED << leaseVars, retryVars >>
    /\ UNCHANGED entVars
    /\ UNCHANGED storeVars

\* handleBackgroundToggle, lines 465-472: isCDPAvailable() resolved
BgCdpResolved ==
    /\ bgPc = "cdp"
    /\ IF ~cdpAvailable /\ HasRelauncher
       THEN /\ mev' = "setup"
            /\ bgPc' = "idle"
            /\ UNCHANGED << backgroundModeEnabled, storeBg, mDriver >>
       ELSE BgDecide
    /\ UNCHANGED << hasProAccess, cdpAvailable, handles, mEnabled, dontShowAgain >>
    /\ UNCHANGED schedVars
    /\ UNCHANGED << leaseVars, retryVars >>
    /\ UNCHANGED entVars
    /\ UNCHANGED storeVars

\* handleBackgroundToggle, lines 478-503: the modal dialog resolved
BgDialogResolved(choice) ==
    /\ bgPc = "dialog"
    /\ bgPc' = "idle"
    /\ IF choice = "Cancel"
       THEN /\ mev' = "none"
            /\ UNCHANGED << backgroundModeEnabled, storeBg, dontShowAgain >>
       ELSE /\ dontShowAgain' = (dontShowAgain \/ choice = "DontShow")
            /\ backgroundModeEnabled' = TRUE
            /\ storeBg' = TRUE
            /\ mev' = "bgOn"
    /\ UNCHANGED << hasProAccess, cdpAvailable, handles, mEnabled, mDriver >>
    /\ UNCHANGED schedVars
    /\ UNCHANGED << leaseVars, retryVars >>
    /\ UNCHANGED entVars
    /\ UNCHANGED storeVars

\* handleBackgroundToggle, lines 510-521, after the store write resolved:
\* turned off, the driver is stopped and the restart awaits the stop;
\* turned on, syncSessions
BgAfterStore ==
    /\ bgPc = "stored"
    /\ IF ~backgroundModeEnabled /\ HasHandler /\ mEnabled
       THEN /\ DriverStop
            /\ mev' = "stop"
            /\ bgPc' = "restart"
       ELSE /\ bgPc' = "idle"
            /\ IF backgroundModeEnabled /\ HasHandler /\ mEnabled
               THEN /\ ModeSync
                    /\ mev' = "none"
               ELSE /\ UNCHANGED mDriver
                    /\ mev' = "none"
    /\ UNCHANGED << hasProAccess, cdpAvailable, handles, mEnabled,
                    backgroundModeEnabled, storeBg, dontShowAgain >>
    /\ UNCHANGED schedVars
    /\ UNCHANGED << leaseVars, retryVars >>
    /\ UNCHANGED entVars
    /\ UNCHANGED storeVars

\* handleBackgroundToggle, line 516: after await cdpHandler.stop(),
\* syncSessions, whatever isEnabled is by now
BgRestart ==
    /\ bgPc = "restart"
    /\ bgPc' = "idle"
    /\ ModeSync
    /\ mev' = "none"
    /\ UNCHANGED << hasProAccess, cdpAvailable, handles, mEnabled,
                    backgroundModeEnabled, storeBg, dontShowAgain >>
    /\ UNCHANGED schedVars
    /\ UNCHANGED << leaseVars, retryVars >>
    /\ UNCHANGED entVars
    /\ UNCHANGED storeVars

\* the timer setInterval creates: an id no armed timer and no handle holds
FreshId(used) ==
    CHOOSE n \in TimerIds \ used : \A m \in TimerIds \ used : n <= m

ArmedIds == {t.id : t \in mTimers}

HeldIds == ArmedIds \cup {mPoll, mCmd}

Cleared_Nothing(T, h) == T

\* clearInterval(h)
Cleared(T, h) == {t \in T : t.id # h}

Suspend(site) == mAwait' = [mAwait EXCEPT ![site] = @ + 1]

ResumeAt(site) == [mAwait EXCEPT ![site] = @ - 1]

\* startPolling, lines 553-559: both timers cleared, their handles left as
\* they are, cdpHandler.start called, the run suspended
MStartPollingCall(aw) ==
    /\ mTimers' = Cleared(Cleared(mTimers, mPoll), mCmd)
    /\ ModeSync
    /\ mAwait' = [aw EXCEPT !["spSync"] = @ + 1]
    /\ UNCHANGED << mPoll, mCmd >>

MStopPollingCall_OnlyPoll ==
    /\ mTimers' = Cleared(mTimers, mPoll)
    /\ mPoll' = 0
    /\ UNCHANGED mCmd
    /\ DriverStop

\* stopPolling, lines 604-615
MStopPollingCall ==
    /\ mTimers' = Cleared(Cleared(mTimers, mPoll), mCmd)
    /\ mPoll' = 0
    /\ mCmd' = 0
    /\ DriverStop

\* handleToggle, lines 328-350: the flag is flipped, the store write awaited
MHandleToggle ==
    /\ Called
    /\ mAwait["toggle"] < MaxPending
    /\ mEnabled' = ~mEnabled
    /\ Suspend("toggle")
    /\ mev' = "none"
    /\ UNCHANGED << mPoll, mCmd, mTimers, pollFrequency, bannedCommands,
                    mAlive, mDriver >>
    /\ UNCHANGED << envVars, bgVars >>
    /\ UNCHANGED << leaseVars, retryVars >>
    /\ UNCHANGED entVars
    /\ storeEnabled' = ~mEnabled
    /\ UNCHANGED << storeFreq, storeBanned >>

\* handleToggle, lines 351-365, after the store write: startPolling (and a
\* CDP probe without prompt) if the flag is set by now, else stopPolling
MToggleResume ==
    /\ mAwait["toggle"] > 0
    /\ IF mEnabled
       THEN /\ mAwait["spSync"] < MaxPending
            /\ MStartPollingCall(ResumeAt("toggle"))
            /\ mev' = "none"
       ELSE /\ MStopPollingCall
            /\ mAwait' = ResumeAt("toggle")
            /\ mev' = "stop"
    /\ UNCHANGED << pollFrequency, bannedCommands, mAlive, mEnabled >>
    /\ UNCHANGED << envVars, bgVars >>
    /\ UNCHANGED mCalls
    /\ UNCHANGED << leaseVars, retryVars >>
    /\ UNCHANGED entVars
    /\ UNCHANGED storeVars

\* startPolling, line 560: syncSessions resolved, the accept commands are
\* issued
MSpSynced ==
    /\ mAwait["spSync"] > 0
    /\ mAwait["spAccept"] < MaxPending
    /\ mAwait' = [ResumeAt("spSync") EXCEPT !["spAccept"] = @ + 1]
    /\ mev' = "accept"
    /\ UNCHANGED << mPoll, mCmd, mTimers, pollFrequency, bannedCommands,
                    mAlive, mEnabled, mDriver >>
    /\ UNCHANGED << envVars, bgVars >>
    /\ UNCHANGED mCalls
    /\ UNCHANGED << leaseVars, retryVars >>
    /\ UNCHANGED entVars
    /\ UNCHANGED storeVars

\* startPolling, lines 564-601: both timers are created and stored in the
\* handles
MSpArm ==
    /\ mAwait["spAccept"] > 0
    /\ Cardinality(mTimers) + 2 <= MaxTimers
    /\ LET c == FreshId(HeldIds)
           p == FreshId(HeldIds \cup {c})
       IN /\ mCmd' = c
          /\ mPoll' = p
          /\ mTimers' = mTimers \cup
                 {[id |-> c, kind |-> "cmd", interval |-> pollFrequency],
                  [id |-> p, kind |-> "poll", interval |-> POLL_INTERVAL]}
    /\ mAwait' = ResumeAt("spAccept")
    /\ mev' = "none"
    /\ UNCHANGED << pollFrequency, bannedCommands, mAlive, mEnabled, mDriver >>
    /\ UNCHANGED << envVars, bgVars >>
    /\ UNCHANGED mCalls
    /\ UNCHANGED << leaseVars, retryVars >>
    /\ UNCHANGED entVars
    /\ UNCHANGED storeVars

\* the callback of a command timer, lines 564-567 and 425-428
MCmdFire(t) ==
    /\ t \in mTimers
    /\ t.kind = "cmd"
    /\ mev' = IF mEnabled THEN "accept" ELSE "none"
    /\ UNCHANGED << schedVars, mEnabled, mDriver >>
    /\ UNCHANGED << envVars, bgVars >>
    /\ UNCHANGED << leaseVars, retryVars >>
    /\ UNCHANGED entVars
    /\ UNCHANGED storeVars

\* the callback of a maintenance timer, lines 570-601, in a window no other
\* window contends with: the lease is written and syncSessions called
MPollFire(t) ==
    /\ t \in mTimers
    /\ t.kind = "poll"
    /\ IF mEnabled
       THEN /\ ModeSync
            /\ mev' = "tick"
       ELSE /\ UNCHANGED mDriver
            /\ mev' = "none"
    /\ UNCHANGED << schedVars, mEnabled >>
    /\ UNCHANGED << envVars, bgVars >>
    /\ UNCHANGED << leaseVars, retryVars >>
    /\ UNCHANGED entVars
    /\ UNCHANGED storeVars

\* handleFrequencyUpdate, lines 412-418
MSetFrequency(freq) ==
    /\ Called
    /\ IF ~Entitled
       THEN /\ mev' = "rejected"
            /\ UNCHANGED << pollFrequency, mAwait, storeFreq >>
       ELSE /\ mAwait["fqStore"] < MaxPending
            /\ pollFrequency' = freq
            /\ storeFreq' = << freq >>
            /\ Suspend("fqStore")
            /\ mev' = "none"
    /\ UNCHANGED << mPoll, mCmd, mTimers, bannedCommands, mAlive, mEnabled,
                    mDriver >>
    /\ UNCHANGED << envVars, bgVars >>
    /\ UNCHANGED << storeEnabled, storeBanned >>
    /\ UNCHANGED << leaseVars, retryVars >>
    /\ UNCHANGED entVars

\* handleFrequencyUpdate, lines 419-421, after the store write
MFqStored ==
    /\ mAwait["fqStore"] > 0
    /\ IF mEnabled
       THEN /\ mAwait["fqSync"] < MaxPending
            /\ ModeSync
            /\ mAwait' = [ResumeAt("fqStore") EXCEPT !["fqSync"] = @ + 1]
            /\ mev' = "none"
       ELSE /\ UNCHANGED mDriver
            /\ mAwait' = ResumeAt("fqStore")
            /\ mev' = "none"
    /\ UNCHANGED << mPoll, mCmd, mTimers, pollFrequency, bannedCommands,
                    mAlive, mEnabled >>
    /\ UNCHANGED << envVars, bgVars >>
    /\ UNCHANGED mCalls
    /\ UNCHANGED << leaseVars, retryVars >>
    /\ UNCHANGED entVars
    /\ UNCHANGED storeVars

\* handleFrequencyUpdate, lines 422-428: the command timer in the handle is
\* cleared and a new one created at the cadence of the moment
MFqArm ==
    /\ mAwait["fqSync"] > 0
    /\ Cardinality(Cleared(mTimers, mCmd)) + 1 <= MaxTimers
    /\ LET c == FreshId(HeldIds)
       IN /\ mCmd' = c
          /\ mTimers' = Cleared(mTimers, mCmd) \cup
                 {[id |-> c, kind |-> "cmd", interval |-> pollFrequency]}
    /\ mAwait' = ResumeAt("fqSync")
    /\ mev' = "rearmed"
    /\ UNCHANGED << mPoll, pollFrequency, bannedCommands, mAlive, mEnabled,
                    mDriver >>
    /\ UNCHANGED << envVars, bgVars >>
    /\ UNCHANGED mCalls
    /\ UNCHANGED << leaseVars, retryVars >>
    /\ UNCHANGED entVars
    /\ UNCHANGED storeVars

\* handleBannedCommandsUpdate, lines 432-438
MBannedUpdate(commands) ==
    /\ Called
    /\ IF ~Entitled
       THEN /\ mev' = "rejected"
            /\ UNCHANGED << bannedCommands, mAwait, storeBanned >>
       ELSE /\ mAwait["bnStore"] < MaxPending
            /\ bannedCommands' = commands
            /\ storeBanned' = commands
            /\ Suspend("bnStore")
            /\ mev' = "none"
    /\ UNCHANGED << mPoll, mCmd, mTimers, pollFrequency, mAlive, mEnabled,
                    mDriver >>
    /\ UNCHANGED << envVars, bgVars >>
    /\ UNCHANGED << storeEnabled, storeFreq >>
    /\ UNCHANGED << leaseVars, retryVars >>
    /\ UNCHANGED entVars

\* handleBannedCommandsUpdate, lines 443-445, after the store write
MBnStored ==
    /\ mAwait["bnStore"] > 0
    /\ mAwait' = ResumeAt("bnStore")
    /\ IF mEnabled
       THEN /\ ModeSync
            /\ mev' = "none"
       ELSE /\ UNCHANGED mDriver
            /\ mev' = "none"
    /\ UNCHANGED << mPoll, mCmd, mTimers, pollFrequency, bannedCommands,
                    mAlive, mEnabled >>
    /\ UNCHANGED << envVars, bgVars >>
    /\ UNCHANGED mCalls
    /\ UNCHANGED << leaseVars, retryVars >>
    /\ UNCHANGED entVars
    /\ UNCHANGED storeVars

\* handlePaidActivation, lines 374-380; an entitlement by trial alone is not
\* told apart from a verified licence
MPaidActivation ==
    /\ Called
    /\ hasProAccess
    /\ mAwait["paid"] < MaxPending
    /\ Suspend("paid")
    /\ mev' = "none"
    /\ UNCHANGED << mPoll, mCmd, mTimers, pollFrequency, bannedCommands,
                    mAlive, mEnabled, mDriver >>
    /\ UNCHANGED << envVars, bgVars >>
    /\ UNCHANGED << leaseVars, retryVars >>
    /\ UNCHANGED entVars
    /\ UNCHANGED storeVars

\* handlePaidActivation, lines 381-383, after ensureCDPOrPrompt(true)
MPaidResume ==
    /\ mAwait["paid"] > 0
    /\ IF mEnabled
       THEN /\ mAwait["spSync"] < MaxPending
            /\ MStartPollingCall(ResumeAt("paid"))
            /\ mev' = "none"
       ELSE /\ mAwait' = ResumeAt("paid")
            /\ mev' = "none"
            /\ UNCHANGED << mPoll, mCmd, mTimers, mDriver >>
    /\ UNCHANGED << pollFrequency, bannedCommands, mAlive, mEnabled >>
    /\ UNCHANGED << envVars, bgVars >>
    /\ UNCHANGED mCalls
    /\ UNCHANGED << leaseVars, retryVars >>
    /\ UNCHANGED entVars
    /\ UNCHANGED storeVars

\* deactivate, lines 884-889
MDeactivate ==
    /\ mAlive
    /\ mAlive' = FALSE
    /\ UNCHANGED mCalls
    /\ MStopPollingCall
    /\ mev' = "stop"
    /\ UNCHANGED << pollFrequency, bannedCommands, mAwait, mEnabled >>
    /\ UNCHANGED << envVars, bgVars >>
    /\ UNCHANGED << leaseVars, retryVars >>
    /\ UNCHANGED entVars
    /\ UNCHANGED storeVars

\* the entitlement changes: a licence is verified or a trial starts; a trial
\* runs out, or the re-verification of lines 183-197 finds the licence
\* invalid and resets the cadence
EntitlementChange(reverified) ==
    /\ hasProAccess' = ~hasProAccess
    /\ pollFrequency' = IF hasProAccess /\ reverified
                        THEN FREE_FREQUENCY
                        ELSE pollFrequency
    /\ mev' = "none"
    /\ UNCHANGED << cdpAvailable, handles, mEnabled, mDriver >>
    /\ UNCHANGED << mPoll, mCmd, mTimers, bannedCommands, mAwait, mAlive >>
    /\ UNCHANGED bgVars
    /\ UNCHANGED mCalls
    /\ UNCHANGED << leaseVars, retryVars >>
    /\ UNCHANGED entVars
    /\ UNCHANGED storeVars

\* the debugging port of the IDE opens or closes
CdpChange ==
    /\ cdpAvailable' = ~cdpAvailable
    /\ mev' = "none"
    /\ UNCHANGED << hasProAccess, handles, mEnabled, mDriver >>
    /\ UNCHANGED schedVars
    /\ UNCHANGED bgVars
    /\ UNCHANGED << leaseVars, retryVars >>
    /\ UNCHANGED entVars
    /\ UNCHANGED storeVars

----------------------------------------------------------------------------
(* Entitlement of one window: src/unnamed/part_000 and the parts of         *)
(* src/extension/extension.js that read or change it                        *)

\* the sites a success path of the payment handler can be suspended at:
\* after the store write of _isPro (line 220, line 277), and in the
\* onProActivated callback at await syncSessions() (extension.js line 118)
EntSites == {"manualStore", "pollStore", "proSync"}

\* a key of globalState holds no value, or the one value << v >>; get
\* returns undefined, or its default, for a key without a value
NotStored == << >>

\* const TRIAL_DURATION_MS = 3 * 24 * 60 * 60 * 1000
TRIAL_DURATION_MS == 259200000

\* default of globalState.get(FREQ_STATE_KEY, 1000)
DEFAULT_FREQUENCY == 1000

\* how far past the end of a trial the clock is followed
MaxOverrun == 1

\* the ages of a trial the clock is looked at: the last instant of the
\* trial, its end, and the instants after it
Elapsed ==
    {TRIAL_DURATION_MS - 1} \cup
    {TRIAL_DURATION_MS + k : k \in 0..MaxOverrun}

IsTrialActive_Inclusive(ts, t) ==
    IF ts = NotStored THEN FALSE ELSE (t - ts[1]) <= TRIAL_DURATION_MS

\* isTrialActive, lines 64-69, with the stored trial start ts at time t
IsTrialActive(ts, t) ==
    IF ts = NotStored THEN FALSE ELSE (t - ts[1]) < TRIAL_DURATION_MS

HasTrialStarted_Never(ts) == FALSE

\* hasTrialStarted, lines 71-74
HasTrialStarted(ts) == ts # NotStored

HasProAccessAt_TrialOnly(pro, ts, t) == IsTrialActive(ts, t)

\* hasProAccess, lines 76-78
HasProAccessAt(pro, ts, t) == pro \/ IsTrialActive(ts, t)

GetPollFrequency_Free(pro, ts, t, sf) == FREE_FREQUENCY

\* getPollFrequency, lines 108-114, with the stored cadence sf
GetPollFrequency(pro, ts, t, sf) ==
    IF HasProAccessAt(pro, ts, t)
    THEN IF sf = NotStored THEN DEFAULT_FREQUENCY ELSE sf[1]
    ELSE FREE_FREQUENCY

\* the variables of the retry sessions, which the entitlement steps leave
\* alone
retryRest == << proTimer, proLive, proAttempts, probes, activations,
                nextTimer, probeCount, cancelled, anyTrue, rlog >>

\* the scheduler of the window, left alone
timerVars == << mPoll, mCmd, mTimers >>

\* Date.now() moves on, to the instant the trial is e old
EClock(e) ==
    /\ trialStart # NotStored
    /\ trialStart[1] + e > now
    /\ now' = trialStart[1] + e
    /\ hasProAccess' = HasProAccessAt(isPro, trialStart, now')
    /\ mev' = "none"
    /\ UNCHANGED << trialStart, notified, notices, reverify, eAwait >>
    /\ UNCHANGED << cdpAvailable, handles, bgVars, timerVars, pollFrequency,
                    bannedCommands, mAwait, mAlive, mCalls, mEnabled, mDriver >>
    /\ UNCHANGED << isPro, storePro, retryRest >>
    /\ UNCHANGED << leaseVars, storeVars >>

NotifyDue_Always(pro, ts, t, told) == ~pro /\ ts # NotStored

\* checkTrialExpiration, lines 27-33: the notification is due
NotifyDue(pro, ts, t, told) ==
    /\ ~pro
    /\ ts # NotStored
    /\ ~IsTrialActive(ts, t)
    /\ ~told

\* checkTrialExpiration, lines 26-48, run by the hourly timer of activate
\* (extension.js lines 199-202)
ECheckTrialExpiration ==
    /\ IF NotifyDue(isPro, trialStart, now, notified)
       THEN /\ notified' = TRUE
            /\ notices' = notices + 1
            /\ mev' = "notice"
       ELSE /\ UNCHANGED << notified, notices >>
            /\ mev' = "none"
    /\ UNCHANGED << trialStart, now, reverify, eAwait >>
    /\ UNCHANGED << envVars, bgVars, schedVars, mEnabled, mDriver >>
    /\ UNCHANGED << isPro, storePro, retryRest >>
    /\ UNCHANGED << leaseVars, storeVars >>

\* cdpHandler.setProStatus(val), if there is a driver
DriverPro(val) ==
    IF HasHandler THEN [mDriver EXCEPT !.pro = val] ELSE mDriver

\* activate, lines 183-197: the verifyLicense() of the start resolved;
\* setProStatus (part_000 lines 117-126) if the answer differs from _isPro
EReverified(isValid) ==
    /\ reverify = "pending"
    /\ reverify' = "done"
    /\ IF isPro # isValid
       THEN /\ isPro' = isValid
            /\ storePro' = isValid
            /\ notified' = IF isValid THEN FALSE ELSE notified
            /\ mDriver' = DriverPro(isValid)
            /\ pollFrequency' =
                   IF ~isValid /\ ~IsTrialActive(trialStart, now)
                   THEN FREE_FREQUENCY
                   ELSE pollFrequency
            /\ hasProAccess' = HasProAccessAt(isValid, trialStart, now)
            /\ mev' = "reverified"
       ELSE /\ UNCHANGED << isPro, storePro, notified, mDriver, pollFrequency,
                            hasProAccess >>
            /\ mev' = "none"
    /\ UNCHANGED << trialStart, now, notices, eAwait >>
    /\ UNCHANGED << cdpAvailable, handles, bgVars, timerVars, bannedCommands,
                    mAwait, mAlive, mCalls, mEnabled >>
    /\ UNCHANGED retryRest
    /\ UNCHANGED << leaseVars, storeVars >>

\* where the success path of path p waits for its store write
StoreSite(p) == IF p = "manual" THEN "manualStore" ELSE "pollStore"

\* a verifyLicense() call the user's activation led to resolved true: in
\* activatePro (lines 218-220, "manual") or in the callback of a retry
\* session (lines 272-277, "polling"); _isPro is set and its store write
\* awaited
EGrant(p) ==
    /\ Called
    /\ eAwait[StoreSite(p)] < MaxPending
    /\ isPro' = TRUE
    /\ storePro' = TRUE
    /\ hasProAccess' = TRUE
    /\ eAwait' = [eAwait EXCEPT ![StoreSite(p)] = @ + 1]
    /\ mev' = "granted"
    /\ UNCHANGED << trialStart, now, notified, notices, reverify >>
    /\ UNCHANGED << cdpAvailable, handles, bgVars, timerVars, pollFrequency,
                    bannedCommands, mAwait, mAlive, mEnabled, mDriver >>
    /\ UNCHANGED retryRest
    /\ UNCHANGED << leaseVars, storeVars >>

\* handlePaidActivation, lines 374-380, called by the callback
PaidCall(aw) ==
    IF isPro
    THEN /\ aw["paid"] < MaxPending
         /\ mAwait' = [aw EXCEPT !["paid"] = @ + 1]
    ELSE mAwait' = aw

\* the success path after its store write: activatePro line 221 writes the
\* cadence key; then the onProActivated callback, extension.js lines
\* 108-122, up to its first await
EGrantStored(p) ==
    /\ eAwait[StoreSite(p)] > 0
    /\ storeFreq' = IF p = "manual" /\ storeFreq = NotStored
                    THEN << DEFAULT_FREQUENCY >>
                    ELSE storeFreq
    /\ pollFrequency' = GetPollFrequency(isPro, trialStart, now, storeFreq')
    /\ IF mEnabled
       THEN /\ eAwait["proSync"] < MaxPending
            /\ eAwait' = [eAwait EXCEPT ![StoreSite(p)] = @ - 1,
                                        !["proSync"] = @ + 1]
            /\ mDriver' =
                   IF HasHandler
                   THEN [state |-> "running", bg |-> backgroundModeEnabled,
                         pro |-> hasProAccess, interval |-> pollFrequency',
                         banned |-> bannedCommands]
                   ELSE mDriver
            /\ UNCHANGED mAwait
       ELSE /\ eAwait' = [eAwait EXCEPT ![StoreSite(p)] = @ - 1]
            /\ mDriver' = DriverPro(TRUE)
            /\ PaidCall(mAwait)
    /\ mev' = "none"
    /\ UNCHANGED << trialStart, now, notified, notices, reverify >>
    /\ UNCHANGED << envVars, bgVars, timerVars, bannedCommands, mAlive,
                    mCalls, mEnabled >>
    /\ UNCHANGED << isPro, storePro, retryRest >>
    /\ UNCHANGED << leaseVars, storeEnabled, storeBanned >>

\* the callback after await syncSessions(): handlePaidActivation
EGrantSynced ==
    /\ eAwait["proSync"] > 0
    /\ eAwait' = [eAwait EXCEPT !["proSync"] = @ - 1]
    /\ PaidCall(mAwait)
    /\ mev' = "none"
    /\ UNCHANGED << trialStart, now, notified, notices, reverify >>
    /\ UNCHANGED << envVars, bgVars, timerVars, pollFrequency, bannedCommands,
                    mAlive, mCalls, mEnabled, mDriver >>
    /\ UNCHANGED << isPro, storePro, retryRest >>
    /\ UNCHANGED << leaseVars, storeVars >>

\* handleToggle, lines 328-350, with the trial it starts on the first enable
\* of a window without a licence (part_000 lines 128-132)
EHandleToggle ==
    /\ Called
    /\ mAwait["toggle"] < MaxPending
    /\ trialStart' = IF ~mEnabled /\ ~isPro /\ ~HasTrialStarted(trialStart)
                     THEN << now >>
                     ELSE trialStart
    /\ hasProAccess' = HasProAccessAt(isPro, trialStart', now)
    /\ mEnabled' = ~mEnabled
    /\ storeEnabled' = ~mEnabled
    /\ Suspend("toggle")
    /\ mev' = "none"
    /\ UNCHANGED << now, notified, notices, reverify, eAwait >>
    /\ UNCHANGED << cdpAvailable, handles, bgVars, timerVars, pollFrequency,
                    bannedCommands, mAlive, mDriver >>
    /\ UNCHANGED << isPro, storePro, retryRest >>
    /\ UNCHANGED << leaseVars, storeFreq, storeBanned >>

LoadPro_Default(stored) == FALSE

\* init, line 54: _isPro = globalState.get(PRO_STATE_KEY, false)
LoadPro(stored) == stored

\* the window is closed and opened again: activate (extension.js lines
\* 100-286) with payment.init (part_000 lines 51-57) rebuilds the state from
\* the store; whatever was suspended or armed is gone with the old process
ERestart ==
    /\ mCalls < MaxCalls
    /\ mCalls' = mCalls + 1
    /\ mAlive' = TRUE
    /\ isPro' = LoadPro(storePro)
    /\ IF NotifyDue(LoadPro(storePro), trialStart, now, notified)
       THEN /\ notified' = TRUE
            /\ notices' = notices + 1
       ELSE UNCHANGED << notified, notices >>
    /\ hasProAccess' = HasProAccessAt(LoadPro(storePro), trialStart, now)
    /\ mEnabled' = storeEnabled
    /\ pollFrequency' =
           GetPollFrequency(LoadPro(storePro), trialStart, now, storeFreq)
    /\ backgroundModeEnabled' = storeBg
    /\ bannedCommands' = IF storeBanned = Undefined THEN "default"
                         ELSE storeBanned
    /\ bgPc' = "idle"
    /\ reverify' = "pending"
    /\ eAwait' = [a \in EntSites |-> 0]
    /\ mPoll' = 0
    /\ mCmd' = 0
    /\ mTimers' = {}
    /\ mAwait' = [a \in AwaitSites |->
                     IF a = "spSync" /\ storeEnabled THEN 1 ELSE 0]
    /\ mDriver' =
           IF storeEnabled /\ HasHandler
           THEN [state |-> "running", bg |-> storeBg, pro |-> hasProAccess',
                 interval |-> pollFrequency', banned |-> bannedCommands']
           ELSE StoppedDriver
    /\ mev' = "restart"
    /\ UNCHANGED << trialStart, now >>
    /\ UNCHANGED << cdpAvailable, handles, storeBg, dontShowAgain >>
    /\ UNCHANGED << storePro, retryRest >>
    /\ UNCHANGED << leaseVars, storeVars >>

RetryIdle ==
    /\ proTimer = 0
    /\ proLive = {}
    /\ proAttempts = 0
    /\ isPro = FALSE
    /\ storePro = FALSE
    /\ probes = [k \in Sources \X Stages |-> 0]
    /\ activations = 0
    /\ nextTimer = 1
    /\ probeCount = 0
    /\ cancelled = {}
    /\ anyTrue = FALSE
    /\ rlog = [s \in Sources |-> NoOutcome]

\* a fresh installation: nothing stored, every window activated and
\* disabled; the windows run the same extension or, for comparison, two
\* extensions with different ids
LeaseInit ==
    /\ lockId = Undefined
    /\ lockPing = NoPing
    /\ myId \in {f \in [Instances -> Ids] : f["w1"] = "extA"}
    /\ alive = [i \in Instances |-> TRUE]
    /\ isEnabled = [i \in Instances |-> FALSE]
    /\ isLockedOut = [i \in Instances |-> FALSE]
    /\ pollTimer = [i \in Instances |-> NullTimer]
    /\ leaked = [i \in Instances |-> {}]
    /\ toggles = 0
    /\ togglePending = [i \in Instances |-> 0]
    /\ spPending = [i \in Instances |-> 0]
    /\ tickPc = [i \in Instances |-> "idle"]
    /\ driver = [i \in Instances |-> "stopped"]
    /\ lastLease = [i \in Instances |-> "none"]
    /\ streak = [i \in Instances |-> 0]
    /\ ev = NoEvent
    /\ quiet = 0

\* the mode controller of a window after activate (lines 155-163) found
\* nothing in the store: disabled, in Simple mode, no entitlement
ModeStart ==
    /\ hasProAccess = FALSE
    /\ cdpAvailable = FALSE
    /\ mEnabled = FALSE
    /\ backgroundModeEnabled = FALSE
    /\ storeBg = FALSE
    /\ dontShowAgain = FALSE
    /\ bgPc = "idle"
    /\ mDriver = StoppedDriver
    /\ mPoll = 0
    /\ mCmd = 0
    /\ mTimers = {}
    /\ pollFrequency = FREE_FREQUENCY
    /\ bannedCommands = "default"
    /\ mAwait = [a \in AwaitSites |-> 0]
    /\ mAlive = TRUE
    /\ mCalls = 0
    /\ mev = "none"

\* nothing about a trial or a cadence is in the store, the clock shows some
\* positive Date.now(), the verifyLicense() of activate has resolved
EntIdle ==
    /\ trialStart = NotStored
    /\ now = 1
    /\ notified = FALSE
    /\ notices = 0
    /\ reverify = "done"
    /\ eAwait = [a \in EntSites |-> 0]
    /\ storeEnabled = FALSE
    /\ storeFreq = NotStored
    /\ storeBanned = Undefined

\* ... with both handles created
ModeIdle == handles = "both" /\ ModeStart

Init == LeaseInit /\ RetryIdle /\ ModeIdle /\ EntIdle

\* the payment handler of one window
RetryInit ==
    /\ LeaseInit
    /\ myId = [i \in Instances |-> "extA"]
    /\ RetryIdle
    /\ ModeIdle
    /\ EntIdle

Next ==
    \/ \E i \in Instances : HandleToggle(i)
    \/ \E i \in Instances : ToggleResume(i)
    \/ \E i \in Instances : StartPollingResume(i)
    \/ \E i \in Instances : \E d \in LiveDues(i) : TickRead(i, d)
    \/ \E i \in Instances : TickWrite(i)
    \/ \E i \in Instances : Deactivate(i)
    \/ AdvanceTime

Spec == Init /\ [][Next]_vars

\* timers fire, awaits resolve and the clock runs
FairSpec ==
    /\ Spec
    /\ WF_vars(AdvanceTime)
    /\ \A i \in Instances :
        /\ WF_vars(ToggleResume(i))
        /\ WF_vars(StartPollingResume(i))
        /\ WF_vars(\E d \in LiveDues(i) : TickRead(i, d))
        /\ WF_vars(TickWrite(i))

RetryNext ==
    \/ ActivatePro
    \/ \E isProNow \in BOOLEAN : ActivateVerified(isProNow)
    \/ \E t \in proLive : ProTick(t)
    \/ \E s \in Sessions : \E isProNow \in BOOLEAN : ProbeResolved(s, isProNow)
    \/ \E s \in Sources : SuccessResolved(s)

RetrySpec == RetryInit /\ [][RetryNext]_vars

\* an armed interval timer keeps firing.  A verifyLicense call that never
\* resolves leaves the program in the state of one that resolved false (the
\* callback does nothing more in either case), so the calls counted in
\* flight are those still to resolve, and each of them does
\* one window and its mode controller; the lazy creation of the handlers
\* (lines 227-238) made both, the driver handle alone, or neither
ModeInit ==
    /\ LeaseInit
    /\ RetryIdle
    /\ handles \in {"both", "handler", "none"}
    /\ ModeStart
    /\ EntIdle

\* the mode controller: the Background toggle, the enable toggle, the two
\* configuration commands, the maintenance timer and the environment
ModeNext ==
    \/ BgToggleCall
    \/ BgCdpResolved
    \/ \E choice \in {"Enable", "DontShow", "Cancel"} : BgDialogResolved(choice)
    \/ BgAfterStore
    \/ BgRestart
    \/ MHandleToggle
    \/ MToggleResume
    \/ MSpSynced
    \/ MSpArm
    \/ \E t \in mTimers : MPollFire(t)
    \/ \E freq \in Freqs : MSetFrequency(freq)
    \/ MFqStored
    \/ MFqArm
    \/ \E commands \in BannedLists : MBannedUpdate(commands)
    \/ MBnStored
    \/ \E reverified \in BOOLEAN : EntitlementChange(reverified)
    \/ CdpChange

ModeSpec == ModeInit /\ [][ModeNext]_vars

\* what the event loop runs unasked: armed timers fire and resolved awaits
\* resume; the user and the environment owe nothing
ModeFairSpec ==
    /\ ModeSpec
    /\ WF_vars(\E t \in mTimers : MPollFire(t))
    /\ WF_vars(BgCdpResolved \/ BgAfterStore \/ BgRestart)
    /\ WF_vars(MToggleResume \/ MSpSynced \/ MSpArm)
    /\ WF_vars(MFqStored \/ MFqArm \/ MBnStored)

\* the scheduler of the same window: everything that starts, stops or
\* replaces a timer
SchedNext ==
    \/ MHandleToggle
    \/ MToggleResume
    \/ MSpSynced
    \/ MSpArm
    \/ \E t \in mTimers : MCmdFire(t)
    \/ \E t \in mTimers : MPollFire(t)
    \/ \E freq \in Freqs : MSetFrequency(freq)
    \/ MFqStored
    \/ MFqArm
    \/ MPaidActivation
    \/ MPaidResume
    \/ MDeactivate
    \/ \E reverified \in BOOLEAN : EntitlementChange(reverified)

SchedSpec == ModeInit /\ [][SchedNext]_vars

\* a window that has just been activated on an empty store, its licence
\* check on the way
EntInit ==
    /\ LeaseInit
    /\ RetryIdle
    /\ handles = "both"
    /\ ModeStart
    /\ trialStart = NotStored
    /\ now = 1
    /\ notified = FALSE
    /\ notices = 0
    /\ reverify = "pending"
    /\ eAwait = [a \in EntSites |-> 0]
    /\ storeEnabled = FALSE
    /\ storeFreq = NotStored
    /\ storeBanned = Undefined

\* the entitlement of the window, with the enable toggle and the scheduler
\* that read it
EntNext ==
    \/ \E e \in Elapsed : EClock(e)
    \/ ECheckTrialExpiration
    \/ \E isValid \in BOOLEAN : EReverified(isValid)
    \/ \E p \in {"manual", "polling"} : EGrant(p)
    \/ \E p \in {"manual", "polling"} : EGrantStored(p)
    \/ EGrantSynced
    \/ EHandleToggle
    \/ ERestart
    \/ MToggleResume
    \/ MSpSynced
    \/ MSpArm
    \/ \E t \in mTimers : MPollFire(t)
    \/ MPaidResume

EntSpec == EntInit /\ [][EntNext]_vars

\* the window across restarts: the handlers that write the store keys read
\* by activate, with the licence check and the clock that decide the access
BootNext ==
    \/ \E e \in Elapsed : EClock(e)
    \/ \E isValid \in BOOLEAN : EReverified(isValid)
    \/ EHandleToggle
    \/ MToggleResume
    \/ MSpSynced
    \/ MSpArm
    \/ \E freq \in Freqs : MSetFrequency(freq)
    \/ MFqStored
    \/ MFqArm
    \/ BgToggleCall
    \/ BgCdpResolved
    \/ \E choice \in {"Enable", "DontShow", "Cancel"} : BgDialogResolved(choice)
    \/ BgAfterStore
    \/ BgRestart
    \/ CdpChange
    \/ ERestart

BootSpec == EntInit /\ [][BootNext]_vars

\* a licensed window that runs in Background mode: it was enabled,
\* Background mode was switched on, and the startPolling of the enable has
\* armed its two timers
RunInit ==
    /\ LeaseInit
    /\ proTimer = 0
    /\ proLive = {}
    /\ proAttempts = 0
    /\ isPro = TRUE
    /\ storePro = TRUE
    /\ probes = [k \in Sources \X Stages |-> 0]
    /\ activations = 0
    /\ nextTimer = 1
    /\ probeCount = 0
    /\ cancelled = {}
    /\ anyTrue = FALSE
    /\ rlog = [s \in Sources |-> NoOutcome]
    /\ handles = "both"
    /\ hasProAccess = TRUE
    /\ cdpAvailable = TRUE
    /\ mEnabled = TRUE
    /\ backgroundModeEnabled = TRUE
    /\ storeBg = TRUE
    /\ dontShowAgain = FALSE
    /\ bgPc = "idle"
    /\ pollFrequency = DEFAULT_FREQUENCY
    /\ bannedCommands = "default"
    /\ mDriver = [state |-> "running", bg |-> TRUE, pro |-> TRUE,
                  interval |-> DEFAULT_FREQUENCY, banned |-> "default"]
    /\ mCmd = 1
    /\ mPoll = 2
    /\ mTimers = {[id |-> 1, kind |-> "cmd", interval |-> DEFAULT_FREQUENCY],
                  [id |-> 2, kind |-> "poll", interval |-> POLL_INTERVAL]}
    /\ mAwait = [a \in AwaitSites |-> 0]
    /\ mAlive = TRUE
    /\ mCalls = 0
    /\ mev = "none"
    /\ trialStart = NotStored
    /\ now = 1
    /\ notified = FALSE
    /\ notices = 0
    /\ reverify = "done"
    /\ eAwait = [a \in EntSites |-> 0]
    /\ storeEnabled = TRUE
    /\ storeFreq = NotStored
    /\ storeBanned = Undefined

\* the commands of the running window and the resumptions of their awaits
RunNext ==
    \/ BgToggleCall
    \/ BgCdpResolved
    \/ \E choice \in {"Enable", "DontShow", "Cancel"} : BgDialogResolved(choice)
    \/ BgAfterStore
    \/ BgRestart
    \/ MHandleToggle
    \/ MToggleResume
    \/ MSpSynced
    \/ MSpArm
    \/ \E t \in mTimers : MPollFire(t)
    \/ \E freq \in Freqs : MSetFrequency(freq)
    \/ MFqStored
    \/ MFqArm
    \/ \E commands \in BannedLists : MBannedUpdate(commands)
    \/ MBnStored
    \/ MPaidActivation
    \/ MPaidResume

RunSpec == RunInit /\ [][RunNext]_vars

RetryFairSpec ==
    /\ RetrySpec
    /\ WF_vars(\E t \in proLive : ProTick(t))
    /\ WF_vars(\E s \in Sessions : \E isProNow \in BOOLEAN : ProbeResolved(s, isProNow))

----------------------------------------------------------------------------
(* Claims about the instance lock *)

\* the instance is enabled and its maintenance timer is armed
Ticking(i) == alive[i] /\ isEnabled[i] /\ LiveDues(i) # {}

\* the last maintenance tick of the instance returned leader
Leading(i) == Ticking(i) /\ streak[i] >= 1

\* the instance was leader on its last two maintenance ticks
Surviving(i) == Ticking(i) /\ streak[i] = 2

\* C1: once a full lease TTL has passed without a write race at most one
\* instance is leader, and two instances never both stay leader across two
\* consecutive maintenance ticks of each.
C1_AtMostOneLeader ==
    quiet >= LOCK_TTL =>
        /\ Cardinality({i \in Instances : Leading(i)}) <= 1
        /\ Cardinality({i \in Instances : Surviving(i)}) <= 1

\* C2: every start sent to the driver follows a lock check of that instance
\* that returned leader, with no later check that returned standby.
C2_StartOnlyAsLeader ==
    ev.call = "start" => lastLease[ev.inst] = "leader"

\* C3: a tick that reads no holder, itself as holder, or another holder whose
\* heartbeat is more than 10 s old writes (selfId, now) and becomes leader.
C3_TickAcquiresAfter10s ==
    /\ ev.src = "standby" =>
          /\ lockId # Undefined
          /\ lockId # myId[ev.inst]
          /\ lockPing.age <= HEARTBEAT_TTL
    /\ ev.src = "tick" =>
          /\ lockId = myId[ev.inst]
          /\ lockPing = [set |-> TRUE, age |-> 0]
          /\ ~isLockedOut[ev.inst]

\* C4: a tick of an enabled instance that reads a fresh lease of another
\* holder returns standby, leaves holder id and heartbeat as they are and
\* does not call the driver.
C4_StandbyWritesNothing ==
    [][\A i \in Instances : \A d \in LiveDues(i) :
          ( /\ TickRead(i, d)
            /\ isEnabled[i]
            /\ lockId \notin {Undefined, myId[i]}
            /\ lockPing.set
            /\ lockPing.age < LOCK_TTL )
          => /\ lockId' = lockId
             /\ lockPing' = lockPing
             /\ driver' = driver
             /\ tickPc'[i] = "idle"
             /\ isLockedOut'[i]
             /\ ev' = [inst |-> i, call |-> "none", src |-> "standby"]]_vars

C4_Witness ==
    /\ ev.src = "standby"
    /\ lockPing.age > 0
    /\ driver[ev.inst] = "running"

\* every other instance is disabled or gone: nobody else heartbeats
OthersStopped(o) == \A h \in Instances \ {o} : ~alive[h] \/ ~isEnabled[h]

\* o holds the lock and drives its driver
Drives(o) ==
    /\ lockId = myId[o]
    /\ ~isLockedOut[o]
    /\ lastLease[o] = "leader"
    /\ driver[o] = "running"

\* C5: when the holder stops heartbeating while another instance stays
\* enabled with its tick firing, that instance eventually becomes leader
\* and drives the driver.
C5_StaleLeaseIsReclaimed ==
    \A o \in Instances :
        (alive[o] /\ isEnabled[o] /\ OthersStopped(o))
            ~> (Drives(o) \/ ~alive[o] \/ ~isEnabled[o] \/ ~OthersStopped(o))

C5_Witness ==
    \E o \in Instances :
        /\ alive[o] /\ isEnabled[o] /\ OthersStopped(o)
        /\ isLockedOut[o]
        /\ lockId # myId[o]
        /\ Fresh(lockPing)

\* C6: while a leader keeps renewing with heartbeat gaps of at most 10 s no
\* other instance acquires the lock or becomes leader.
C6_RenewingLeaderKeepsLock ==
    [][\A h \in Instances : \A o \in Instances \ {h} :
          ( /\ Surviving(h)
            /\ lockId = myId[h]
            /\ lockPing.age <= HEARTBEAT_TTL
            /\ quiet >= LOCK_TTL )
          => ~(ev'.inst = o /\ ev'.src = "tick")]_vars

----------------------------------------------------------------------------
(* Claims about the activation polling *)

\* the polling session started last
Newest(s) == s = nextTimer - 1

\* C7: while every probe fails a session invokes the probe at most 24 times,
\* reports exhausted at most once, and when it reports exhausted it has
\* invoked the probe exactly 24 times and its timer is stopped.
C7_ExactlyMaxProbes ==
    ~anyTrue =>
        /\ probeCount <= MAX_PRO_POLLING_ATTEMPTS
        /\ \A s \in Sessions :
              /\ rlog[s].exhausted <= 1
              /\ (rlog[s].exhausted = 1 /\ Newest(s)) =>
                    /\ probeCount = MAX_PRO_POLLING_ATTEMPTS
                    /\ proAttempts = MAX_PRO_POLLING_ATTEMPTS + 1
                    /\ s \notin proLive
                    /\ proTimer = 0

C7_Witness ==
    /\ ~anyTrue
    /\ \E s \in Sessions : rlog[s].exhausted = 1 /\ Newest(s)
    /\ probeCount = MAX_PRO_POLLING_ATTEMPTS

\* C8: a session reports at most one outcome, succeeded or exhausted, also
\* when probe calls are still in flight at a later tick.
C8_OneOutcomePerSession ==
    \A s \in Sessions : rlog[s].succeeded + rlog[s].exhausted <= 1

\* C9: at most one session is armed, and a session that startProPolling
\* cancelled reports no outcome and its probes do not stop the timer or
\* change the attempts of the session that replaced it.
C9_CancelledSessionIsSilent ==
    [][/\ Cardinality(proLive') <= 1
       /\ \A s \in cancelled :
             /\ rlog'[s] = rlog[s]
             /\ probes'[<<s, "verify">>] < probes[<<s, "verify">>] =>
                   /\ proLive' = proLive
                   /\ proTimer' = proTimer
                   /\ proAttempts' = proAttempts]_vars

\* C10: when the verification of a manual activatePro succeeds while a
\* session is armed, that session is cancelled.
C10_ManualSuccessCancelsSession ==
    [][\A s \in Sessions :
          ( /\ s \in proLive
            /\ probes'[<<Manual, "success">>] > probes[<<Manual, "success">>] )
          => s \notin proLive']_vars

\* the session has been started
Started(s) == s < nextTimer

----------------------------------------------------------------------------
(* Claims about the mode controller *)

\* C12: a Background toggle requested without Pro access is rejected at
\* once: the mode flag in memory, the persisted flag and the driver stay as
\* they were, and the handler is not left suspended
C12_DeniedToggleChangesNothing ==
    [][(BgToggleCall /\ ~hasProAccess) =>
           /\ backgroundModeEnabled' = backgroundModeEnabled
           /\ storeBg' = storeBg
           /\ mDriver' = mDriver
           /\ bgPc' = "idle"
           /\ mev' = "denied"]_vars

\* a toggle was denied in Background mode with the driver running, after the
\* entitlement was lost
C12_Witness ==
    /\ mev = "denied"
    /\ ~hasProAccess
    /\ backgroundModeEnabled
    /\ mDriver.state = "running"

\* the step of handleBackgroundToggle that has the answer about the external
\* resource: isCDPAvailable() resolved, or there is no driver handle to ask
BgProbed ==
    \/ BgCdpResolved
    \/ BgToggleCall /\ hasProAccess /\ ~backgroundModeEnabled /\ ~HasHandler

\* C13: a request to switch Background on, made with Pro access while the
\* external resource is unavailable, requests the setup flow and ends there:
\* the mode flag and the persisted flag stay as they were, whichever of the
\* driver and relauncher handles exist
C13_UnavailableDefersToSetup ==
    [][(BgProbed /\ ~cdpAvailable) =>
           /\ mev' = "setup"
           /\ bgPc' = "idle"
           /\ backgroundModeEnabled' = backgroundModeEnabled
           /\ storeBg' = storeBg]_vars

\* a maintenance tick of the enabled window, which leads for want of any
\* other window
LeaderTick == mEnabled /\ \E t \in mTimers : MPollFire(t)

\* C14: while hasProAccess is false, every leader maintenance tick starts
\* the driver with isBackgroundMode = false, whatever the mode flag says
C14_NoAccessTickIsSimple ==
    [][(LeaderTick /\ ~hasProAccess /\ HasHandler) =>
           /\ mDriver'.state = "running"
           /\ ~mDriver'.bg]_vars

\* a step of handleBackgroundToggle that assigns the mode flag
BgRequested ==
    \/ BgToggleCall
    \/ BgCdpResolved
    \/ \E choice \in {"Enable", "DontShow", "Cancel"} : BgDialogResolved(choice)

\* the window is enabled, has a driver and its maintenance timer is armed
Maintained == HasHandler /\ mEnabled /\ mPoll \in ArmedIds

\* C15: once the external resource is unavailable to the driver of a
\* maintained window in Background mode, the mode is forced to Simple (unless
\* the resource comes back or the window is disabled first); and the mode flag
\* changes in no step other than that one and the requested toggles
C15_UnavailableForcesSimple ==
    /\ (Maintained /\ backgroundModeEnabled /\ ~cdpAvailable) ~>
           (~Maintained \/ ~backgroundModeEnabled \/ cdpAvailable)
    /\ [][(backgroundModeEnabled' # backgroundModeEnabled) =>
              (BgRequested \/ (backgroundModeEnabled /\ ~cdpAvailable))]_vars

\* C16: every leader maintenance tick of an enabled window that has a driver
\* calls start, running or not, with the values of that moment: the mode
\* flag, the Pro-access flag, the cadence and the banned list
C16_TickStartsWithCurrentConfig ==
    [][(LeaderTick /\ HasHandler) =>
           /\ mDriver'.state = "running"
           /\ mDriver'.bg = backgroundModeEnabled
           /\ mDriver'.pro = hasProAccess
           /\ mDriver'.interval = pollFrequency
           /\ mDriver'.banned = bannedCommands]_vars

\* a tick has passed on a Background flag and a cadence that were both set
\* after the driver was first started, and an entitlement lost since
C16_Witness ==
    /\ mev = "tick"
    /\ mDriver.state = "running"
    /\ mDriver.bg
    /\ mDriver.interval = 1000
    /\ ~mDriver.pro
----------------------------------------------------------------------------
(* Claims about the scheduler *)

\* a step that runs stopPolling: the disable branch of handleToggle, or
\* deactivate
StopStep == (MToggleResume /\ ~mEnabled) \/ MDeactivate

\* C17: stopPolling cancels the timers its two handles hold, empties both
\* handles and stops the driver; run on a scheduler that is already stopped
\* it changes nothing
C17_StopCancelsAndIsIdempotent ==
    [][StopStep =>
           /\ mPoll' = 0
           /\ mCmd' = 0
           /\ {mPoll, mCmd} \cap ArmedIds' = {}
           /\ HasHandler => mDriver'.state = "stopped"
           /\ (mPoll = 0 /\ mCmd = 0 /\ mDriver.state = "stopped") =>
                  UNCHANGED << mPoll, mCmd, mTimers, mDriver >>]_vars

\* a window that was enabled with Pro access (the driver was started so) and
\* armed both timers, then was disabled, then deactivated: stopPolling has
\* run twice
C17_Witness ==
    /\ ~mAlive
    /\ ~mEnabled
    /\ mCalls = 2
    /\ HasHandler
    /\ mev = "stop"
    /\ \A a \in AwaitSites : mAwait[a] = 0
    /\ mPoll = 0
    /\ mCmd = 0
    /\ mTimers = {}
    /\ mDriver.state = "stopped"
    /\ mDriver.pro

\* the last toggle disabled the window and its stopPolling has run
StopCompleted == ~mEnabled /\ mAwait["toggle"] = 0

\* C18: once a disable or a stop has completed, no command timer and no
\* maintenance timer of the window is armed, whatever handler was suspended
\* at an await when the stop ran
C18_NoTimerAfterStop == StopCompleted => mTimers = {}

CmdTimers == {t \in mTimers : t.kind = "cmd"}

\* C19: when set-cadence reaches its timer while the command timer in the
\* handle is running, that timer is cancelled and one new timer at the
\* current cadence takes its place in the handle: the old one cannot fire
\* again and the number of armed command timers does not grow
C19_CadenceReplacesTimer ==
    [][(MFqArm /\ mCmd \in ArmedIds) =>
           /\ mCmd \notin ArmedIds'
           /\ mCmd' # mCmd
           /\ [id |-> mCmd', kind |-> "cmd", interval |-> pollFrequency]
                  \in mTimers'
           /\ Cardinality(CmdTimers') = Cardinality(CmdTimers)]_vars

\* set-cadence has replaced the command timer startPolling had armed (timers
\* 1 and 2) by timer 3, which runs at the new cadence and is the only
\* command timer
C19_Witness ==
    /\ mev = "rearmed"
    /\ mEnabled
    /\ mCmd = 3
    /\ mPoll = 2
    /\ mTimers = {[id |-> 2, kind |-> "poll", interval |-> POLL_INTERVAL],
                  [id |-> 3, kind |-> "cmd", interval |-> 1000]}

\* C20: the accept commands are issued only while the enabled flag is true
C20_NoAcceptWhileDisabled == mev = "accept" => mEnabled
\* C21: the trial-expiry notification is shown once: a notification is shown
\* only by a step that finds the notified flag false and sets it, a check
\* made after the trial ended without a licence leaves the flag set, and the
\* flag is put back to false only by a step that turns _isPro from false to
\* true.
C21_NotifiedOncePerExpiry ==
    [][ /\ notices' # notices =>
            (~notified /\ notified' /\ notices' = notices + 1)
        /\ (ECheckTrialExpiration /\ ~isPro /\ HasTrialStarted(trialStart)
              /\ ~IsTrialActive(trialStart, now)) => notified'
        /\ (notified /\ ~notified') => (~isPro /\ isPro') ]_vars

\* the notification was shown, an upgrade put the flag back, the licence was
\* lost again and the notification was shown a second time
C21_Witness == notices = 2 /\ notified /\ ~isPro

\* C22: every step that turns _isPro from false to true leaves the notified
\* flag false, whether the step is the re-verification of activate, a manual
\* activation or the success of a retry session.
C22_UpgradeResetsNotified ==
    [][ (~isPro /\ isPro') => ~notified' ]_vars

\* no handler of the window is suspended at an await and the licence check
\* of activate has resolved
EntQuiet ==
    /\ reverify = "done"
    /\ \A a \in EntSites : eAwait[a] = 0
    /\ \A a \in AwaitSites : mAwait[a] = 0

\* the cadence of a licensed window: the stored value, or the default
CustomCadence ==
    IF storeFreq = NotStored THEN DEFAULT_FREQUENCY ELSE storeFreq[1]

\* C23: whenever _isPro is true and nothing is in flight, pollFrequency is
\* the custom cadence (the stored value or the default), also after the
\* re-verification of the start turned _isPro from false to true.
C23_EntitledUsesCustomCadence ==
    (isPro /\ EntQuiet) => pollFrequency = CustomCadence

\* a maintenance tick of the enabled window that reaches the driver
DriverTick == \E t \in mTimers : MPollFire(t) /\ mEnabled /\ HasHandler

\* C24: a re-verification whose answer differs from _isPro updates _isPro and
\* its stored flag, and sets the cadence to the base tier if the licence is
\* gone and no trial is active; every maintenance tick after the
\* re-verification passes the access that follows from the updated
\* entitlement to the driver.
C24_ReverificationPropagates ==
    [][ /\ \A isValid \in BOOLEAN :
            (EReverified(isValid) /\ isPro # isValid) =>
                /\ isPro' = isValid
                /\ storePro' = isValid
                /\ (~isValid /\ ~IsTrialActive(trialStart, now)) =>
                       pollFrequency' = FREE_FREQUENCY
        /\ (DriverTick /\ reverify = "done") =>
               /\ mDriver'.state = "running"
               /\ mDriver'.pro = (isPro \/ IsTrialActive(trialStart, now))
               /\ mDriver'.interval = pollFrequency ]_vars

\* a window activated with a key, which wrote the cadence key, lost its
\* licence in a re-verification, and a maintenance tick has passed the driver
\* no access and the base cadence
C24_Witness ==
    /\ mev = "tick"
    /\ reverify = "done"
    /\ ~isPro /\ ~storePro
    /\ trialStart = NotStored
    /\ storeFreq # NotStored
    /\ mDriver.state = "running"
    /\ ~mDriver.pro
    /\ mDriver.interval = FREE_FREQUENCY

\* C25: isTrialActive is true exactly when a trial start is stored and less
\* than TRIAL_DURATION_MS has passed since: true one instant before the end,
\* false at the end and after it, false without a stored start; hasProAccess
\* is _isPro or isTrialActive.
C25_TrialWindow ==
    /\ IsTrialActive(trialStart, now) <=>
           (trialStart # NotStored /\ now - trialStart[1] < TRIAL_DURATION_MS)
    /\ IsTrialActive(<< now >>, now + TRIAL_DURATION_MS - 1)
    /\ \A k \in 0..MaxOverrun :
           ~IsTrialActive(<< now >>, now + TRIAL_DURATION_MS + k)
    /\ ~IsTrialActive(NotStored, now)
    /\ HasProAccessAt(isPro, trialStart, now) =
           (isPro \/ IsTrialActive(trialStart, now))
    /\ hasProAccess = HasProAccessAt(isPro, trialStart, now)

\* the clock shows the instant the trial of an unlicensed window ends
C25_Witness ==
    /\ trialStart # NotStored
    /\ now - trialStart[1] = TRIAL_DURATION_MS
    /\ ~isPro
    /\ ~hasProAccess

\* C26: _isPro equals its stored flag after every step, and a restart, which
\* reloads the state from the store, gives the same _isPro and the same
\* hasProAccess as before it at the same instant.
C26_RestartKeepsAccess ==
    [][ /\ isPro' = storePro'
        /\ ERestart => (isPro' = isPro /\ hasProAccess' = hasProAccess) ]_vars

\* a window that started a trial and was licensed later has been restarted
C26_Witness ==
    /\ mev = "restart"
    /\ isPro
    /\ trialStart # NotStored
    /\ hasProAccess

\* C27: a start rebuilds the state from the store: the enabled flag and the
\* background flag are the stored ones, and the cadence is the stored cadence
\* (the default if none was stored) when the window has Pro access and the
\* base cadence otherwise.
C27_StartupRebuildsState ==
    [][ ERestart =>
          /\ mEnabled' = storeEnabled
          /\ backgroundModeEnabled' = storeBg
          /\ pollFrequency' =
                 IF hasProAccess' THEN CustomCadence ELSE FREE_FREQUENCY ]_vars

\* a window restarted after Background mode was switched on and a cadence
\* was set
C27_Witness ==
    /\ mev = "restart"
    /\ backgroundModeEnabled /\ storeBg
    /\ storeFreq = << 500 >>
    /\ pollFrequency = 500

\* a set-cadence or set-banned-patterns command
ConfigCall ==
    \/ \E freq \in Freqs : MSetFrequency(freq)
    \/ \E commands \in BannedLists : MBannedUpdate(commands)

\* C28: a set-cadence or set-banned-patterns command of a window without Pro
\* access changes nothing: the cadence, the banned list, their stored
\* values, the timers with their handles, the driver and the suspended runs
\* are as before.
C28_RejectedConfigChangesNothing ==
    [][ (ConfigCall /\ ~hasProAccess) =>
          UNCHANGED << pollFrequency, bannedCommands, storeFreq, storeBanned,
                       mTimers, mPoll, mCmd, mDriver, mAwait, mEnabled,
                       backgroundModeEnabled >> ]_vars

\* a command was rejected in an enabled window whose timers are armed and
\* whose driver runs with a cadence set while the window had access
C28_Witness ==
    /\ mev = "rejected"
    /\ mEnabled
    /\ mCmd # 0
    /\ mDriver.state = "running"
    /\ storeFreq # NotStored
    /\ pollFrequency = storeFreq[1]

\* the maintenance tick of instance i found the lock held by another window
StandbyTick(i) ==
    /\ isEnabled[i]
    /\ LockedByOther(i)
    /\ \E d \in LiveDues(i) : TickRead(i, d)

\* C29: a maintenance tick changes isLockedOut (and with it refreshes the
\* status bar) exactly when its lock result differs from the result of the
\* instance's previous tick, an instance without a previous tick counting as
\* leader; after the tick the flag is the negation of its leader result.
C29_LockedOutFollowsLeaderChange ==
    [][ \A i \in Instances :
          /\ StandbyTick(i) =>
                /\ isLockedOut'[i]
                /\ (isLockedOut'[i] # isLockedOut[i]) <=>
                       (lastLease[i] # "standby")
          /\ TickWrite(i) =>
                /\ ~isLockedOut'[i]
                /\ (isLockedOut'[i] # isLockedOut[i]) <=>
                       (lastLease[i] = "standby") ]_vars

\* a tick of an instance that led before found the lock held by the other
\* window and set the flag
C29_Witness ==
    \E i \in Instances :
        /\ isLockedOut[i]
        /\ lastLease[i] = "standby"
        /\ streak[i] = 0
        /\ ev = [inst |-> i, call |-> "none", src |-> "standby"]
        /\ driver[i] = "running"

\* C30: the driver is started only while the enabled flag is true: no step
\* takes the driver from stopped to running while isEnabled is false,
\* whichever handler was suspended at an await when the window was disabled.
C30_NoStartWhileDisabled ==
    [][ (mDriver.state = "stopped" /\ mDriver'.state = "running")
            => mEnabled ]_vars

\* the armed maintenance timers of the window
PollTimers == {t \in mTimers : t.kind = "poll"}

\* C31: at most one command timer and at most one maintenance timer of the
\* window is armed, and every armed timer is the one its handle variable
\* holds, also when startPolling is entered again or set-cadence runs while
\* an earlier startPolling is suspended at an await.
C31_OneTimerPerHandle ==
    /\ Cardinality(CmdTimers) <= 1
    /\ Cardinality(PollTimers) <= 1
    /\ \A t \in CmdTimers : t.id = mCmd
    /\ \A t \in PollTimers : t.id = mPoll

\* C32: whenever the window is enabled and nothing is in flight, every armed
\* command timer runs at the current pollFrequency, after any sequence of
\* activations, re-verifications, restarts and enable toggles.
C32_TimerRunsAtCadence ==
    (mEnabled /\ EntQuiet) =>
        \A t \in CmdTimers : t.interval = pollFrequency

\* C33: the trial start is written at most once: it changes only in an
\* enable toggle of a window without a licence and without a stored start,
\* which stores the current time; a stored start is never changed or
\* removed, and a trial that has ended is not active after any later step.
C33_TrialStartWrittenOnce ==
    [][ /\ trialStart' # trialStart =>
              /\ trialStart = NotStored
              /\ EHandleToggle
              /\ ~mEnabled /\ ~isPro
              /\ trialStart' = << now >>
        /\ (trialStart # NotStored /\ ~IsTrialActive(trialStart, now)) =>
              ~IsTrialActive(trialStart', now') ]_vars

\* the trial has ended, and the unlicensed window, enabled and disabled
\* before, is being enabled again
C33_Witness ==
    /\ trialStart # NotStored
    /\ now - trialStart[1] >= TRIAL_DURATION_MS
    /\ ~isPro /\ ~hasProAccess
    /\ mEnabled
    /\ mAwait["toggle"] = 1
    /\ mTimers # {}
    /\ mCalls = 3

====
